---- MODULE Spec2Model ----
(***************************************************************************)
(* A model of documentextraction.py: the module-level DOC_STORE, the PDF   *)
(* processing pass of the main script, the three agent tools, and one      *)
(* extraction run (agent answer, JSON parse, post-normalization, final     *)
(* payload).                                                               *)
(*                                                                         *)
(* Python values are tagged records [t |-> type, v |-> payload]; a Python  *)
(* str is a sequence of one-character strings, so that strip, replace,     *)
(* join, float() and strptime() are computed character by character.       *)
(* The literal messages of the source are kept whole as the elements of a  *)
(* sequence whose head is "ERROR:" where the source writes that prefix.    *)
(***************************************************************************)
EXTENDS Integers, Sequences, FiniteSets, TLC

VARIABLES
    DOC_STORE,          \* the module-level dict, lines 37-42
    uploaded,           \* st.file_uploader widget value, line 51
    dpi,                \* st.slider widget value, line 52
    pc,                 \* position of the script run: "idle", "invoking"
    extracted_fields,   \* line 243
    agent_output_text,  \* line 244
    error_msg,          \* line 245
    shown,              \* TRUE when the last run reached the final payload
    renders,            \* page_to_image calls made by the last script run
    tool_result         \* what the last tool call returned

vars == <<DOC_STORE, uploaded, dpi, pc, extracted_fields, agent_output_text,
          error_msg, shown, renders, tool_result>>

-----------------------------------------------------------------------------
(* Bounds of the model.                                                    *)

\* Longest uploaded document, in pages.
MaxPages == 2

\* Most keys of "fields" an agent answer populates in the rich answers.
MaxFields == 2

-----------------------------------------------------------------------------
(* Python values.                                                          *)

PyNone == [t |-> "None", v |-> 0]
PyBool(b) == [t |-> "bool", v |-> b]
PyInt(n) == [t |-> "int", v |-> n]
\* A float is mant / 10^scale, with no trailing zero in the fraction.
PyFloat(mant, scale) == [t |-> "float", v |-> <<mant, scale>>]
PyStr(s) == [t |-> "str", v |-> s]
PyList(l) == [t |-> "list", v |-> l]
PyDict(d) == [t |-> "dict", v |-> d]
\* An int too large for a C double (json.loads keeps ints exact).
PyHugeInt == [t |-> "hugeint", v |-> 0]
EmptyDict == PyDict(<<>>)

\* bool(x)
Truthy(x) ==
    CASE x.t = "None" -> FALSE
      [] x.t = "bool" -> x.v
      [] x.t = "int" -> x.v # 0
      [] x.t = "float" -> x.v[1] # 0
      [] x.t = "str" -> x.v # <<>>
      [] x.t = "list" -> x.v # <<>>
      [] x.t = "dict" -> DOMAIN x.v # {}
      [] OTHER -> TRUE

\* type(x).__name__
TypeName(x) ==
    CASE x.t = "None" -> "NoneType"
      [] x.t = "hugeint" -> "int"
      [] OTHER -> x.t

\* d.get(k, default) on a dict
DictGet(d, k, default) == IF k \in DOMAIN d.v THEN d.v[k] ELSE default

\* d[k] = val on a dict
DictSet(d, k, val) ==
    PyDict([j \in DOMAIN d.v \cup {k} |-> IF j = k THEN val ELSE d.v[j]])

-----------------------------------------------------------------------------
(* str methods, on sequences of characters.                                *)

Whitespace == {" ", "\n", "\t"}
Digit == {"0", "1", "2", "3", "4", "5", "6", "7", "8", "9"}

DigitVal(c) ==
    CASE c = "0" -> 0 [] c = "1" -> 1 [] c = "2" -> 2 [] c = "3" -> 3
      [] c = "4" -> 4 [] c = "5" -> 5 [] c = "6" -> 6 [] c = "7" -> 7
      [] c = "8" -> 8 [] c = "9" -> 9

DigitChar(n) ==
    CASE n = 0 -> "0" [] n = 1 -> "1" [] n = 2 -> "2" [] n = 3 -> "3"
      [] n = 4 -> "4" [] n = 5 -> "5" [] n = 6 -> "6" [] n = 7 -> "7"
      [] n = 8 -> "8" [] n = 9 -> "9"

RECURSIVE lstrip(_)
lstrip(s) ==
    IF s # <<>> /\ Head(s) \in Whitespace THEN lstrip(Tail(s)) ELSE s

RECURSIVE rstrip(_)
rstrip(s) ==
    IF s # <<>> /\ s[Len(s)] \in Whitespace
    THEN rstrip(SubSeq(s, 1, Len(s) - 1))
    ELSE s

\* s.strip()
strip(s) == rstrip(lstrip(s))

\* s.replace(c, "")
RemoveChar(s, c) == SelectSeq(s, LAMBDA ch : ch # c)

\* sep.join(parts)
RECURSIVE join(_, _)
join(sep, parts) ==
    IF parts = <<>> THEN <<>>
    ELSE IF Len(parts) = 1 THEN parts[1]
    ELSE parts[1] \o sep \o join(sep, Tail(parts))

\* c * n
RECURSIVE Rep(_, _)
Rep(c, n) == IF n = 0 THEN <<>> ELSE <<c>> \o Rep(c, n - 1)

AllDigits(s) == \A i \in 1..Len(s) : s[i] \in Digit

\* int(s) of a string of digits
RECURSIVE DigitsVal(_)
DigitsVal(s) ==
    IF s = <<>> THEN 0
    ELSE 10 * DigitsVal(SubSeq(s, 1, Len(s) - 1)) + DigitVal(s[Len(s)])

\* str(n) of n >= 0
RECURSIVE NatStr(_)
NatStr(n) ==
    IF n < 10 THEN <<DigitChar(n)>>
    ELSE NatStr(n \div 10) \o <<DigitChar(n % 10)>>

\* '%02d' % n
Pad2(n) == IF n < 10 THEN <<"0">> \o NatStr(n) ELSE NatStr(n)

\* The index of the first c in s, or 0.
RECURSIVE IndexFrom(_, _, _)
IndexFrom(s, c, i) ==
    IF i > Len(s) THEN 0
    ELSE IF s[i] = c THEN i
    ELSE IndexFrom(s, c, i + 1)

\* s.split(c)
RECURSIVE split(_, _)
split(s, c) ==
    LET i == IndexFrom(s, c, 1)
    IN  IF i = 0 THEN <<s>>
        ELSE <<SubSeq(s, 1, i - 1)>> \o split(SubSeq(s, i + 1, Len(s)), c)

-----------------------------------------------------------------------------
(* float(s) and datetime.strptime(s, fmt), as the helpers use them.        *)

ValueError == [t |-> "ValueError", v |-> 0]
OverflowError == [t |-> "OverflowError", v |-> 0]

\* Drops the trailing zeros of a fraction: 150 / 10^2 is 15 / 10^1.
RECURSIVE NormFloat(_, _)
NormFloat(mant, scale) ==
    IF scale > 0 /\ mant % 10 = 0 THEN NormFloat(mant \div 10, scale - 1)
    ELSE PyFloat(mant, scale)

\* float(s) for a str: surrounding whitespace is ignored, then an optional
\* sign and a decimal numeral with at most one point and at least one digit.
\* The exponent, "inf", "nan" and "_" spellings float() also reads use
\* characters that no input of the model contains.
ParseFloat(s) ==
    LET t == strip(s)
        signed == t # <<>> /\ Head(t) \in {"+", "-"}
        body == IF signed THEN Tail(t) ELSE t
        sign == IF signed /\ Head(t) = "-" THEN -1 ELSE 1
        parts == split(body, ".")
        ip == parts[1]
        fp == IF Len(parts) = 2 THEN parts[2] ELSE <<>>
    IN  IF /\ Len(parts) <= 2
           /\ AllDigits(ip) /\ AllDigits(fp)
           /\ Len(ip) + Len(fp) >= 1
        THEN NormFloat(sign * DigitsVal(ip \o fp), Len(fp))
        ELSE ValueError

\* float(x) for an int or a float
NumToFloat(x) ==
    CASE x.t = "float" -> x
      [] x.t = "int" -> PyFloat(x.v, 0)
      [] x.t = "bool" -> PyFloat(IF x.v THEN 1 ELSE 0, 0)
      [] x.t = "hugeint" -> OverflowError

IsLeap(y) == (y % 4 = 0 /\ y % 100 # 0) \/ y % 400 = 0

DaysIn(y, m) ==
    IF m = 2 THEN (IF IsLeap(y) THEN 29 ELSE 28)
    ELSE IF m \in {4, 6, 9, 11} THEN 30
    ELSE 31

\* The %m directive: 1[0-2]|0[1-9]|[1-9]
MatchMonth(s) ==
    /\ Len(s) \in {1, 2} /\ AllDigits(s)
    /\ DigitsVal(s) \in 1..12

\* The %d directive: 3[0-1]|[1-2]\d|0[1-9]|[1-9]| [1-9]
MatchDay(s) ==
    \/ Len(s) \in {1, 2} /\ AllDigits(s) /\ DigitsVal(s) \in 1..31
    \/ Len(s) = 2 /\ s[1] = " " /\ s[2] \in Digit \ {"0"}

DayVal(s) == IF s[1] = " " THEN DigitVal(s[2]) ELSE DigitsVal(s)

\* The %y directive's century: 69..99 are 19xx, 00..68 are 20xx.
YearOf2(s) == IF DigitsVal(s) >= 69 THEN 1900 + DigitsVal(s) ELSE 2000 + DigitsVal(s)

\* datetime(y, m, d), or ValueError
MakeDate(y, m, d) ==
    IF y >= 1 /\ d <= DaysIn(y, m) THEN <<y, m, d>> ELSE ValueError

\* datetime.strptime(s, fmt) for the three formats of normalize_date_to_iso
strptime(s, fmt) ==
    CASE fmt = "%m/%d/%y" ->
            LET p == split(s, "/")
            IN  IF /\ Len(p) = 3 /\ MatchMonth(p[1]) /\ MatchDay(p[2])
                   /\ Len(p[3]) = 2 /\ AllDigits(p[3])
                THEN MakeDate(YearOf2(p[3]), DigitsVal(p[1]), DayVal(p[2]))
                ELSE ValueError
      [] fmt = "%m/%d/%Y" ->
            LET p == split(s, "/")
            IN  IF /\ Len(p) = 3 /\ MatchMonth(p[1]) /\ MatchDay(p[2])
                   /\ Len(p[3]) = 4 /\ AllDigits(p[3])
                THEN MakeDate(DigitsVal(p[3]), DigitsVal(p[1]), DayVal(p[2]))
                ELSE ValueError
      [] fmt = "%Y-%m-%d" ->
            LET p == split(s, "-")
            IN  IF /\ Len(p) = 3 /\ Len(p[1]) = 4 /\ AllDigits(p[1])
                   /\ MatchMonth(p[2]) /\ MatchDay(p[3])
                THEN MakeDate(DigitsVal(p[1]), DigitsVal(p[2]), DayVal(p[3]))
                ELSE ValueError

\* dt.strftime("%Y-%m-%d"), for the four-digit years of the inputs
strftime(dt) == NatStr(dt[1]) \o <<"-">> \o Pad2(dt[2]) \o <<"-">> \o Pad2(dt[3])

DateFormats == <<"%m/%d/%y", "%m/%d/%Y", "%Y-%m-%d">>

RECURSIVE TryFormats(_, _)
TryFormats(s, i) ==
    IF i > Len(DateFormats) THEN PyNone
    ELSE LET dt == strptime(s, DateFormats[i])
         IN  IF dt = ValueError THEN TryFormats(s, i + 1)
             ELSE PyStr(strftime(dt))

normalize_date_to_iso(date_str) ==
    IF ~Truthy(date_str) \/ date_str.t # "str" THEN PyNone
    ELSE TryFormats(strip(date_str.v), 1)

\* re.sub(r"^\$", "", s)
StripDollar(s) == IF s # <<>> /\ Head(s) = "$" THEN Tail(s) ELSE s

\* coerce_number without the replace(",", "") of line 139.
coerce_number_KeepCommas(x) ==
    CASE x.t = "None" -> PyNone
      [] x.t \in {"int", "float", "bool", "hugeint"} -> NumToFloat(x)
      [] x.t = "str" ->
            LET r == ParseFloat(StripDollar(strip(x.v)))
            IN  IF r = ValueError THEN PyNone ELSE r
      [] OTHER -> PyNone

\* A Python float or None, or OverflowError when float(x) raises it.
coerce_number(x) ==
    CASE x.t = "None" -> PyNone
      [] x.t \in {"int", "float", "bool", "hugeint"} -> NumToFloat(x)
      [] x.t = "str" ->
            LET r == ParseFloat(StripDollar(RemoveChar(strip(x.v), ",")))
            IN  IF r = ValueError THEN PyNone ELSE r
      [] OTHER -> PyNone

-----------------------------------------------------------------------------
(* The uploaded PDF and the per-page extraction policy.                    *)

\* len(text_layer) >= 30, line 98
TextThreshold == 30

\* A PDF page as the external libraries see it: its embedded text layer and
\* the text the OCR engine reads off its rendering.
DigitalPage == [layer |-> Rep("a", TextThreshold) \o <<"\n">>, ocr |-> <<"a">>]
ScannedPage ==
    [layer |-> <<" ">> \o Rep("a", TextThreshold - 1) \o <<" ">>,
     ocr |-> <<"I", "N", "V", "\n">>]
BlankPage == [layer |-> <<>>, ocr |-> <<" ", "\n">>]
PageKinds == {DigitalPage, ScannedPage, BlankPage}

\* The uploaded files: the pages fitz.open() finds in the bytes.
Docs == UNION {[1..n -> PageKinds] : n \in 1..MaxPages}

\* The slider of line 52 runs from 150 to 300 in steps of 25.
DpiValues == {200, 300}
DefaultDpi == 200

\* hashlib.sha256(pdf_bytes).hexdigest(): equal bytes, equal digest, and no
\* two files of the model collide.
compute_doc_id(pdf_bytes) == [t |-> "digest", v |-> pdf_bytes]

page_to_image(page, d) == [page |-> page, dpi |-> d, mode |-> "RGB"]

preprocess_for_ocr(img) == [img EXCEPT !.mode = "1"]

\* pytesseract.image_to_string(ocr_img, config="--psm 6")
image_to_string(ocr_img) == ocr_img.page.ocr

\* <<text, used_ocr>>
extract_text_from_page(page, img) ==
    LET text_layer == strip(page.layer)
    IN  IF Len(text_layer) >= TextThreshold
        THEN <<text_layer, FALSE>>
        ELSE <<image_to_string(preprocess_for_ocr(img)), TRUE>>

-----------------------------------------------------------------------------
(* DOC_STORE and the three tools.                                          *)

EmptyStore ==
    [doc_id |-> PyNone, pages |-> PyNone, images |-> PyNone, full_text |-> PyNone]

ErrNoText ==
    <<"ERROR:", " No document text loaded. Upload and process a PDF first.">>
ErrNoPages ==
    <<"ERROR:", " No pages loaded. Upload and process a PDF first.">>
ErrNoImages ==
    <<"ERROR:", " No document images loaded. Upload and process a PDF first.">>
ErrRange(n) ==
    <<"ERROR:", " page_number out of range. Must be 1..", ToString(n)>>

\* get_full_text without the str(full_text).strip() test of line 155.
get_full_text_NoStrip(store) ==
    IF Truthy(store.full_text) THEN store.full_text.v ELSE ErrNoText

get_full_text(store) ==
    LET full_text == store.full_text
    IN  IF Truthy(full_text) /\ strip(full_text.v) # <<>>
        THEN full_text.v
        ELSE ErrNoText

\* get_page_text with "page_number < 0" for "page_number < 1": pages[-1] is
\* the last page.
get_page_text_ZeroAllowed(store, page_number) ==
    LET pages == store.pages
    IN  IF ~Truthy(pages) THEN ErrNoPages
        ELSE IF page_number < 0 \/ page_number > Len(pages.v)
        THEN ErrRange(Len(pages.v))
        ELSE pages.v[IF page_number = 0 THEN Len(pages.v) ELSE page_number].text

get_page_text(store, page_number) ==
    LET pages == store.pages
    IN  IF ~Truthy(pages) THEN ErrNoPages
        ELSE IF page_number < 1 \/ page_number > Len(pages.v)
        THEN ErrRange(Len(pages.v))
        ELSE pages.v[page_number].text

\* ocr_page without the "if not images" test of line 175: len(None) raises.
ocr_page_NoEmptyCheck(store, page_number) ==
    LET images == store.images
    IN  IF images = PyNone
        THEN <<"TypeError:", " object of type 'NoneType' has no len()">>
        ELSE IF page_number < 1 \/ page_number > Len(images.v)
        THEN ErrRange(Len(images.v))
        ELSE image_to_string(preprocess_for_ocr(images.v[page_number]))

ocr_page(store, page_number) ==
    LET images == store.images
    IN  IF ~Truthy(images) THEN ErrNoImages
        ELSE IF page_number < 1 \/ page_number > Len(images.v)
        THEN ErrRange(Len(images.v))
        ELSE image_to_string(preprocess_for_ocr(images.v[page_number]))

\* ocr_page caching its result in the Page it re-read.
StoreAfterTool_WriteBack(store, tool, page_number) ==
    IF /\ tool = "ocr_page"
       /\ Truthy(store.images)
       /\ page_number \in 1..Len(store.images.v)
    THEN [store EXCEPT !.pages.v[page_number] =
             [page |-> page_number, used_ocr |-> TRUE,
              text |-> ocr_page(store, page_number)]]
    ELSE store

\* The store a tool call leaves behind: the tools only read DOC_STORE.
StoreAfterTool(store, tool, page_number) == store

\* The page numbers the agent passes.
PageArgs == -1..(MaxPages + 1)

NoCall == [tool |-> "none", arg |-> 0, ret |-> <<>>]

\* The agent calls the tools while agent.invoke runs (line 346), before the
\* run has a payload; with no document processed they are called directly.
ToolCallable == ~shown

GetFullTextCall ==
    /\ ToolCallable
    /\ tool_result' = [tool |-> "get_full_text", arg |-> 0,
                       ret |-> get_full_text(DOC_STORE)]
    /\ DOC_STORE' = StoreAfterTool(DOC_STORE, "get_full_text", 0)
    /\ UNCHANGED <<uploaded, dpi, pc, extracted_fields, agent_output_text,
                   error_msg, shown, renders>>

GetPageTextCall ==
    \E p \in PageArgs :
        /\ ToolCallable
        /\ tool_result' = [tool |-> "get_page_text", arg |-> p,
                           ret |-> get_page_text(DOC_STORE, p)]
        /\ DOC_STORE' = StoreAfterTool(DOC_STORE, "get_page_text", p)
        /\ UNCHANGED <<uploaded, dpi, pc, extracted_fields, agent_output_text,
                       error_msg, shown, renders>>

OcrPageCall ==
    \E p \in PageArgs :
        /\ ToolCallable
        /\ tool_result' = [tool |-> "ocr_page", arg |-> p,
                           ret |-> ocr_page(DOC_STORE, p)]
        /\ DOC_STORE' = StoreAfterTool(DOC_STORE, "ocr_page", p)
        /\ UNCHANGED <<uploaded, dpi, pc, extracted_fields, agent_output_text,
                       error_msg, shown, renders>>

-----------------------------------------------------------------------------
(* One run of the script up to the agent call.  Streamlit executes the     *)
(* file from its first line on every interaction, so each run starts with  *)
(* the assignment of lines 37-42.                                          *)

\* Lines 205-216: the pages, images and text parts of the first n pages.
ProcessedPages(doc, d, n) ==
    [i \in 1..n |->
        LET img == page_to_image(doc[i], d)
            r == extract_text_from_page(doc[i], img)
        IN  [page |-> i, used_ocr |-> r[2], text |-> r[1]]]

RenderedImages(doc, d, n) == [i \in 1..n |-> page_to_image(doc[i], d)]

TextParts(pages) == [i \in 1..Len(pages) |-> pages[i].text]

\* The processing pass writing DOC_STORE["doc_id"] before the page loop.
FillStore_EarlyDocId(store, pdf_bytes, d, failAt) ==
    LET doc_id == compute_doc_id(pdf_bytes) IN
    IF failAt > 0
    THEN <<[store EXCEPT !.doc_id = doc_id], failAt, FALSE>>
    ELSE LET pages == ProcessedPages(pdf_bytes, d, Len(pdf_bytes))
         IN  <<[doc_id |-> doc_id,
                pages |-> PyList(pages),
                images |-> PyList(RenderedImages(pdf_bytes, d, Len(pdf_bytes))),
                full_text |-> PyStr(join(<<"\n", "\n">>, TextParts(pages)))],
               Len(pdf_bytes), TRUE>>

\* Lines 202-221.  failAt = 0: every page is processed; failAt = k > 0: the
\* rasterizer or the OCR engine raises on page k and the run ends there.
\* The result is <<store, rendered pages, completed>>.
FillStore(store, pdf_bytes, d, failAt) ==
    LET doc_id == compute_doc_id(pdf_bytes) IN
    IF store.doc_id # doc_id \/ store.pages = PyNone
    THEN IF failAt > 0
         THEN <<store, failAt, FALSE>>
         ELSE LET pages == ProcessedPages(pdf_bytes, d, Len(pdf_bytes))
              IN  <<[doc_id |-> doc_id,
                     pages |-> PyList(pages),
                     images |-> PyList(RenderedImages(pdf_bytes, d, Len(pdf_bytes))),
                     full_text |-> PyStr(join(<<"\n", "\n">>, TextParts(pages)))],
                    Len(pdf_bytes), TRUE>>
    ELSE <<store, 0, TRUE>>

\* Lines 37-42: what the run binds DOC_STORE to before anything else.
StoreAtStart(store) == EmptyStore

ErrNoKey ==
    <<"ANTHROPIC_API_KEY not set. Set it as an environment variable or in .streamlit/secrets.toml">>

\* The whole script for one interaction: file is the uploader's value, d the
\* slider's, run the button's; hasKey says whether get_anthropic_key()
\* finds a credential.
ScriptRun(file, d, run, failAt, hasKey) ==
    /\ uploaded' = file
    /\ dpi' = d
    /\ tool_result' = NoCall
    /\ extracted_fields' = EmptyDict
    /\ agent_output_text' = PyNone
    /\ IF file = PyNone
       THEN /\ DOC_STORE' = StoreAtStart(DOC_STORE)
            /\ renders' = 0
            /\ shown' = FALSE
            /\ error_msg' = PyNone
            /\ pc' = "idle"
       ELSE LET r == FillStore(StoreAtStart(DOC_STORE), file.v, d, failAt)
            IN  /\ DOC_STORE' = r[1]
                /\ renders' = r[2]
                /\ IF ~r[3]
                   THEN shown' = FALSE /\ error_msg' = PyNone /\ pc' = "idle"
                   ELSE IF ~run
                   THEN shown' = TRUE /\ error_msg' = PyNone /\ pc' = "idle"
                   ELSE IF ~hasKey
                   THEN shown' = TRUE /\ error_msg' = PyStr(ErrNoKey) /\ pc' = "idle"
                   ELSE shown' = FALSE /\ error_msg' = PyNone /\ pc' = "invoking"

PdfFile(doc) == [t |-> "file", v |-> doc]

UploadFile(doc) ==
    /\ pc = "idle"
    /\ \E failAt \in 0..Len(doc) :
          ScriptRun(PdfFile(doc), dpi, FALSE, failAt, TRUE)

RemoveFile ==
    /\ pc = "idle"
    /\ uploaded # PyNone
    /\ ScriptRun(PyNone, dpi, FALSE, 0, TRUE)

ChangeDpi ==
    /\ pc = "idle"
    /\ \E d \in DpiValues \ {dpi} :
          \E failAt \in 0..(IF uploaded = PyNone THEN 0 ELSE Len(uploaded.v)) :
              ScriptRun(uploaded, d, FALSE, failAt, TRUE)

\* The button of line 241 exists once a run has got past the previews.
ClickRun ==
    /\ pc = "idle"
    /\ shown
    /\ \E failAt \in 0..Len(uploaded.v), hasKey \in BOOLEAN :
          ScriptRun(uploaded, dpi, TRUE, failAt, hasKey)

Init ==
    /\ DOC_STORE = EmptyStore
    /\ uploaded = PyNone
    /\ dpi = DefaultDpi
    /\ pc = "idle"
    /\ extracted_fields = EmptyDict
    /\ agent_output_text = PyNone
    /\ error_msg = PyNone
    /\ shown = FALSE
    /\ renders = 0
    /\ tool_result = NoCall

-----------------------------------------------------------------------------
(* The agent's answer, extract_json and json.loads.                        *)
(*                                                                         *)
(* The final message's content is a str or a list of content blocks.  A    *)
(* non-empty str is kept as what the parser sees in it: whether prose      *)
(* surrounds the body, whether the body sits in a ``` fence, and the body, *)
(* either the JSON text of a value or text that is not JSON.               *)

JsonBody(val) == [t |-> "json", v |-> val]
\* Text that is not JSON; braced when it starts with "{" and ends with "}".
GarbageBody(braced) == [t |-> "garbage", v |-> braced]
AnswerText(prose, fenced, body) ==
    [t |-> "text", v |-> [prose |-> prose, fenced |-> fenced, body |-> body]]
Plain(val) == AnswerText(FALSE, FALSE, JsonBody(val))

NoExc == [t |-> "NoExc", v |-> <<>>]
JSONDecodeError == [t |-> "JSONDecodeError", v |-> <<"Expecting value">>]
TypeError(msg) == [t |-> "TypeError", v |-> msg]
AttributeError(x) ==
    [t |-> "AttributeError",
     v |-> <<"'", TypeName(x), "' object has no attribute 'get'">>]
FloatOverflow == [t |-> "OverflowError", v |-> <<"int too large to convert to float">>]
ExcTypes == {"JSONDecodeError", "TypeError", "AttributeError", "OverflowError"}
IsExc(x) == x.t \in ExcTypes

\* The group the pattern ```(?:json)?\s*(\{.*?\})\s*``` captures, if any.
FenceMatches(text) ==
    /\ text.v.fenced
    /\ \/ text.v.body.t = "garbage" /\ text.v.body.v
       \/ text.v.body.t = "json" /\ text.v.body.v.t = "dict"

extract_json(text) ==
    IF ~Truthy(text) THEN text
    ELSE IF text.t # "text"
    THEN TypeError(<<"expected string or bytes-like object, got '", TypeName(text), "'">>)
    ELSE IF FenceMatches(text) THEN AnswerText(FALSE, FALSE, text.v.body)
    ELSE text

json_loads(src) ==
    IF src.t \notin {"text", "str"}
    THEN TypeError(<<"the JSON object must be str, bytes or bytearray, not ",
                     TypeName(src)>>)
    ELSE IF src.t = "str" THEN JSONDecodeError
    ELSE IF src.v.prose \/ src.v.fenced \/ src.v.body.t = "garbage"
    THEN JSONDecodeError
    ELSE src.v.body.v

-----------------------------------------------------------------------------
(* Lines 350-367: the post-normalization.  The parsed answer is a tree, so *)
(* an assignment into a node shows in extracted_fields at once; a step is  *)
(* [f |-> the "fields" mapping so far, exc |-> the exception raised].      *)

\* Lines 356-359 without the "not inv.get('value_iso')" test.
NormalizeDateNode_Overwrite(st, k) ==
    IF st.exc # NoExc THEN st
    ELSE LET node == DictGet(st.f, k, EmptyDict) IN
         IF ~Truthy(node) THEN st
         ELSE IF node.t # "dict" THEN [st EXCEPT !.exc = AttributeError(node)]
         ELSE IF Truthy(DictGet(node, "value", PyNone))
         THEN [st EXCEPT !.f = DictSet(st.f, k,
                  DictSet(node, "value_iso",
                          normalize_date_to_iso(DictGet(node, "value", PyNone))))]
         ELSE st

\* Lines 356-359, for one of invoice_date, due_date.
NormalizeDateNode(st, k) ==
    IF st.exc # NoExc THEN st
    ELSE LET node == DictGet(st.f, k, EmptyDict) IN
         IF ~Truthy(node) THEN st
         ELSE IF node.t # "dict" THEN [st EXCEPT !.exc = AttributeError(node)]
         ELSE IF /\ Truthy(DictGet(node, "value", PyNone))
                 /\ ~Truthy(DictGet(node, "value_iso", PyNone))
         THEN [st EXCEPT !.f = DictSet(st.f, k,
                  DictSet(node, "value_iso",
                          normalize_date_to_iso(DictGet(node, "value", PyNone))))]
         ELSE st

\* Lines 363-365, for one of tax, total, balance_due.
CoerceNode(st, k) ==
    IF st.exc # NoExc THEN st
    ELSE LET node == DictGet(st.f, k, PyNone) IN
         IF node.t # "dict" THEN st
         ELSE LET r == coerce_number(DictGet(node, "value", PyNone)) IN
              IF r = OverflowError THEN [st EXCEPT !.exc = FloatOverflow]
              ELSE [st EXCEPT !.f = DictSet(st.f, k, DictSet(node, "value", r))]

\* The order in which lines 356-365 visit the fields.
NormOrder == <<"invoice_date", "due_date", "tax", "total", "balance_due">>

NormStep(st, k) ==
    IF k \in {"invoice_date", "due_date"} THEN NormalizeDateNode(st, k)
    ELSE CoerceNode(st, k)

RECURSIVE NormFrom(_, _)
NormFrom(st, i) ==
    IF i > Len(NormOrder) THEN st
    ELSE NormFrom(NormStep(st, NormOrder[i]), i + 1)

\* <<extracted_fields, exception>> after lines 352-367.
PostNormalize(parsed) ==
    IF parsed.t # "dict" THEN <<parsed, AttributeError(parsed)>>
    ELSE LET f == DictGet(parsed, "fields", EmptyDict) IN
         IF f.t # "dict" THEN <<parsed, AttributeError(f)>>
         ELSE LET st == NormFrom([f |-> f, exc |-> NoExc], 1)
              IN  IF st.exc = NoExc \/ "fields" \in DOMAIN parsed.v
                  THEN <<DictSet(parsed, "fields", st.f), st.exc>>
                  ELSE <<parsed, st.exc>>

ErrInvalidJson ==
    <<"Claude did not return valid JSON. See agent_output_raw for details.">>

\* Lines 369-372 with json.JSONDecodeError left to "except Exception".
ErrorFor_Generic(exc) ==
    IF exc = NoExc THEN PyNone ELSE PyStr(exc.v)

\* Lines 369-372: error_msg for the exception the try block ended with.
ErrorFor(exc) ==
    IF exc = NoExc THEN PyNone
    ELSE IF exc.t = "JSONDecodeError" THEN PyStr(ErrInvalidJson)
    ELSE PyStr(exc.v)

\* Lines 346-372, once agent.invoke has returned content:
\* <<agent_output_text, extracted_fields, error_msg>>.
AfterInvoke(content) ==
    LET src == extract_json(content)
        parsed == IF IsExc(src) THEN src ELSE json_loads(src)
    IN  IF IsExc(parsed) THEN <<content, EmptyDict, ErrorFor(parsed)>>
        ELSE LET n == PostNormalize(parsed)
             IN  <<content, n[1], ErrorFor(n[2])>>

AgentReturns(content) ==
    /\ pc = "invoking"
    /\ LET r == AfterInvoke(content)
       IN  /\ agent_output_text' = r[1]
           /\ extracted_fields' = r[2]
           /\ error_msg' = r[3]
    /\ pc' = "idle"
    /\ shown' = TRUE
    /\ UNCHANGED <<DOC_STORE, uploaded, dpi, renders, tool_result>>

\* agent.invoke raises (the model call fails): line 371.
AgentFailures == {<<"Connection error.">>, <<"Recursion limit of 25 reached">>}

AgentRaises ==
    /\ pc = "invoking"
    /\ \E msg \in AgentFailures :
          error_msg' = ErrorFor([t |-> "Exception", v |-> msg])
    /\ pc' = "idle"
    /\ shown' = TRUE
    /\ UNCHANGED <<DOC_STORE, uploaded, dpi, renders, tool_result,
                   extracted_fields, agent_output_text>>

\* Lines 375-382: the payload the run displays.
result ==
    [text |-> DOC_STORE.full_text,
     pages |-> DOC_STORE.pages,
     extraction |-> extracted_fields,
     agent_output_raw |-> agent_output_text,
     error |-> error_msg]

-----------------------------------------------------------------------------
(* The answers the agent gives.                                            *)

S_invoice == <<"i", "n", "v", "o", "i", "c", "e">>
S_mdy2 == <<"0", "3", "/", "1", "5", "/", "2", "4">>
S_mdy4 == <<"3", "/", "5", "/", "2", "0", "2", "4">>
S_iso == <<"2", "0", "2", "4", "-", "0", "3", "-", "1", "5">>
S_isoOther == <<"1", "9", "9", "9", "-", "0", "1", "-", "0", "1">>
S_noDate == <<"n", "/", "a">>
S_money == <<"$", "1", ",", "2", "3", "4", ".", "5", "6">>
S_abc == <<"a", "b", "c">>
S_padded == <<" ", "4", "2", " ">>
S_twoDollars == <<"$", "$", "5">>
S_dollarSpace == <<"$", " ", "1", "8", "6", ".", "5", "1">>
S_negative == <<"-", "3", ".", "5", "0">>
S_twoPoints == <<"1", ".", "2", ".", "3">>

DateKeys == {"invoice_date", "due_date"}
NumKeys == {"tax", "total", "balance_due"}
FieldKeys == DateKeys \cup NumKeys

\* A field sent as something other than an object.
NonObjects == {PyNone, PyStr(<<"x">>)}

\* What the agent sends for invoice_date and due_date.
DateEntries ==
    NonObjects \cup
    {EmptyDict,
     PyDict([value |-> PyStr(S_mdy2)]),
     PyDict([value |-> PyStr(S_mdy4)]),
     PyDict([value |-> PyStr(S_noDate)]),
     PyDict([value |-> PyInt(5)]),
     PyDict([value |-> PyStr(S_iso), value_iso |-> PyNone]),
     PyDict([value |-> PyStr(S_mdy2), value_iso |-> PyStr(<<>>)]),
     PyDict([value |-> PyStr(S_mdy2), value_iso |-> PyStr(S_isoOther)]),
     PyDict([value |-> PyNone, value_iso |-> PyStr(S_isoOther)]),
     PyDict([value |-> PyNone, value_iso |-> PyNone])}

\* What the agent puts under "value" of a numeric field.
NumValues ==
    {PyNone, PyInt(42), PyFloat(15, 1), PyBool(TRUE), PyHugeInt,
     PyStr(S_money), PyStr(S_abc), PyStr(S_padded), PyStr(S_twoDollars),
     PyStr(<<>>), PyStr(S_dollarSpace), PyStr(S_negative),
     PyStr(S_twoPoints), PyList(<<>>)}

\* What the agent sends for tax, total and balance_due.
NumEntries ==
    NonObjects \cup {EmptyDict} \cup {PyDict([value |-> v]) : v \in NumValues}

EntriesFor(k) == IF k \in DateKeys THEN DateEntries ELSE NumEntries

\* Every "fields" mapping over the keys K.
RECURSIVE FieldMaps(_)
FieldMaps(K) ==
    IF K = {} THEN {<<>>}
    ELSE LET k == CHOOSE j \in K : TRUE
         IN  {[j \in K |-> IF j = k THEN e ELSE m[j]] :
                 m \in FieldMaps(K \ {k}), e \in EntriesFor(k)}

Answer(fields) ==
    PyDict([document_type |-> PyStr(S_invoice), fields |-> fields])

\* The key sets of the answers that populate at most MaxFields fields.
KeySets == {J \in SUBSET FieldKeys : Cardinality(J) <= MaxFields}

GoodAnswer ==
    Answer(PyDict([invoice_date |-> PyDict([value |-> PyStr(S_mdy2)]),
                   due_date |-> PyDict([value |-> PyStr(S_iso),
                                        value_iso |-> PyStr(S_iso)]),
                   tax |-> PyDict([value |-> PyNone]),
                   total |-> PyDict([value |-> PyStr(S_money)]),
                   balance_due |-> PyDict([value |-> PyInt(42)])]))

\* The answer the prompt prescribes when get_full_text() reports an error.
NoTextAnswer ==
    PyDict([error |-> PyStr(<<"no_document_text">>),
            details |-> PyStr(ErrNoText),
            document_type |-> PyStr(S_invoice),
            fields |-> EmptyDict])

\* Answers whose shape is not the schema's.
OddAnswers ==
    {PyList(<<>>), PyNone, EmptyDict,
     PyDict([fields |-> PyList(<<>>)]),
     Answer(PyDict([invoice_date |-> PyStr(<<"x">>)])),
     Answer(PyDict([invoice_date |-> PyDict([value |-> PyStr(S_mdy2)]),
                    due_date |-> PyStr(<<"x">>)])),
     Answer(PyDict([total |-> PyDict([value |-> PyStr(S_money)]),
                    balance_due |-> PyDict([value |-> PyHugeInt])]))}

SmallContents ==
    {Plain(a) : a \in {GoodAnswer, NoTextAnswer} \cup OddAnswers}
    \cup {AnswerText(FALSE, TRUE, JsonBody(GoodAnswer)),
          AnswerText(TRUE, TRUE, JsonBody(GoodAnswer)),
          AnswerText(TRUE, FALSE, JsonBody(GoodAnswer)),
          AnswerText(FALSE, TRUE, JsonBody(PyList(<<>>))),
          AnswerText(FALSE, FALSE, GarbageBody(FALSE)),
          AnswerText(FALSE, TRUE, GarbageBody(TRUE)),
          PyStr(<<>>), PyList(<<>>), PyList(<<"text_block">>)}

-----------------------------------------------------------------------------
(* The application: uploads, slider changes, extraction runs and the tool  *)
(* calls of the agent, with a few answers.                                 *)

Upload == \E doc \in Docs : UploadFile(doc)

FewContents ==
    {Plain(GoodAnswer), Plain(NoTextAnswer), AnswerText(FALSE, FALSE, GarbageBody(FALSE))}

AgentAnswers ==
    /\ pc = "invoking"
    /\ \E content \in FewContents : AgentReturns(content)

Next ==
    \/ Upload
    \/ RemoveFile
    \/ ChangeDpi
    \/ ClickRun
    \/ AgentAnswers
    \/ AgentRaises
    \/ GetFullTextCall
    \/ GetPageTextCall
    \/ OcrPageCall

Spec == Init /\ [][Next]_vars

(* Extraction runs on one scanned invoice, with every answer of the model. *)

InvoiceDoc == <<ScannedPage>>

UploadInvoice == UploadFile(InvoiceDoc)

\* The agent returns one of SmallContents or a valid JSON object that
\* populates at most MaxFields fields.
AgentAnswersRun ==
    /\ pc = "invoking"
    /\ \E content \in SmallContents \cup
                       {Plain(Answer(PyDict(m))) :
                           m \in UNION {FieldMaps(K) : K \in KeySets}} :
          AgentReturns(content)

NextRun ==
    \/ UploadInvoice
    \/ ClickRun
    \/ AgentAnswersRun
    \/ AgentRaises

SpecRun == Init /\ [][NextRun]_vars

-----------------------------------------------------------------------------
(* Properties of the Document Store and of the tools.                      *)

Processed(store) ==
    /\ store.doc_id # PyNone /\ store.pages # PyNone
    /\ store.images # PyNone /\ store.full_text # PyNone

PageCount == Len(DOC_STORE.pages.v)

\* A step that runs the script with a file in the uploader.
IsScriptRunWithFile == pc = "idle" /\ tool_result' = NoCall /\ uploaded' # PyNone

\* C1: the store is keyed by content hash only: a script run whose file has
\* the doc_id DOC_STORE holds, with pages present, rasterizes nothing and
\* leaves the four fields as they were, whatever the DPI; a run whose file
\* has another doc_id processes every page and replaces the four fields.
C1_CacheKeyedByHash ==
    [][IsScriptRunWithFile =>
          IF /\ DOC_STORE.doc_id = compute_doc_id(uploaded'.v)
             /\ DOC_STORE.pages # PyNone
          THEN renders' = 0 /\ DOC_STORE' = DOC_STORE
          ELSE \/ ~Processed(DOC_STORE')
               \/ /\ renders' = Len(uploaded'.v)
                  /\ DOC_STORE'.doc_id = compute_doc_id(uploaded'.v)
                  /\ Len(DOC_STORE'.pages.v) = Len(uploaded'.v)
                  /\ Len(DOC_STORE'.images.v) = Len(uploaded'.v)]_vars

HasInk(text) == \E i \in 1..Len(text) : text[i] \notin Whitespace

\* C2 as claimed: get_full_text() returns the error string when the store
\* is empty and otherwise the cached full_text, whatever the page texts.
C2_FullTextUnlessEmpty ==
    tool_result.tool = "get_full_text" =>
        IF Processed(DOC_STORE)
        THEN tool_result.ret = DOC_STORE.full_text.v
        ELSE tool_result.ret = ErrNoText

\* C2, amended: get_full_text() returns the cached full_text exactly when a
\* document is processed and its full_text has a character that is not
\* whitespace; otherwise (empty store, or a text of whitespace only) it
\* returns the "ERROR: No document text loaded..." string.
C2_FullTextOrError ==
    tool_result.tool = "get_full_text" =>
        IF Processed(DOC_STORE) /\ HasInk(DOC_STORE.full_text.v)
        THEN /\ tool_result.ret = DOC_STORE.full_text.v
             /\ Head(tool_result.ret) # "ERROR:"
        ELSE tool_result.ret =
                <<"ERROR:", " No document text loaded. Upload and process a PDF first.">>

C2_Witness ==
    /\ tool_result.tool = "get_full_text"
    /\ Processed(DOC_STORE)
    /\ PageCount = 2
    /\ DOC_STORE.pages.v[1].text # DOC_STORE.pages.v[2].text
    /\ tool_result.ret = DOC_STORE.full_text.v

\* C3: with N >= 1 pages loaded, get_page_text(p) and ocr_page(p) return
\* "ERROR: page_number out of range. Must be 1..N" for p < 1 or p > N, and
\* get_page_text(p) returns the text of the Page numbered p for 1 <= p <= N.
C3_PageRange ==
    (/\ tool_result.tool \in {"get_page_text", "ocr_page"}
     /\ Processed(DOC_STORE)
     /\ PageCount >= 1) =>
        IF tool_result.arg < 1 \/ tool_result.arg > PageCount
        THEN tool_result.ret =
                <<"ERROR:", " page_number out of range. Must be 1..",
                  ToString(PageCount)>>
        ELSE tool_result.tool = "get_page_text" =>
                \E i \in 1..PageCount :
                    /\ DOC_STORE.pages.v[i].page = tool_result.arg
                    /\ tool_result.ret = DOC_STORE.pages.v[i].text

C3_Witness ==
    /\ tool_result.tool = "get_page_text"
    /\ Processed(DOC_STORE)
    /\ PageCount = 2
    /\ tool_result.arg = 0
    /\ Head(tool_result.ret) = "ERROR:"

C5_ToolsReadOnly ==
    [][(GetFullTextCall \/ GetPageTextCall \/ OcrPageCall) =>
          DOC_STORE' = DOC_STORE]_vars

\* A forced OCR of a page whose cached text came from the text layer.
C5_Witness ==
    /\ tool_result.tool = "ocr_page"
    /\ Processed(DOC_STORE)
    /\ tool_result.arg \in 1..PageCount
    /\ ~DOC_STORE.pages.v[tool_result.arg].used_ocr
    /\ tool_result.ret # DOC_STORE.pages.v[tool_result.arg].text

\* C6: doc_id, pages, images and full_text are all absent or all present,
\* also after a processing pass that failed part-way through a document.
C6_AllOrNothing ==
    \/ DOC_STORE = EmptyStore
    \/ Processed(DOC_STORE)

\* The pass raised on the second page of a two-page document.
C6_Witness ==
    /\ uploaded # PyNone
    /\ Len(uploaded.v) = 2
    /\ renders = 2
    /\ ~shown
    /\ pc = "idle"
    /\ DOC_STORE = EmptyStore

-----------------------------------------------------------------------------
(* Properties of an extraction run.                                        *)

\* The run has ended and the agent had returned an answer.
Answered == pc = "idle" /\ shown /\ agent_output_text # PyNone

\* The answer is JSON once an optional fence is stripped.
ValidJsonText(c) ==
    /\ c.t = "text"
    /\ c.v.body.t = "json"
    /\ IF c.v.fenced THEN c.v.body.v.t = "dict" ELSE ~c.v.prose

InvalidJsonContent(c) == c = PyStr(<<>>) \/ (c.t = "text" /\ ~ValidJsonText(c))

\* The answer as parsed, before the normalizer.
Before == agent_output_text.v.body.v

\* Whether answer ans has fields[k][e], and that entry.
HasEntry(ans, k, e) ==
    /\ ans.t = "dict" /\ "fields" \in DOMAIN ans.v
    /\ ans.v.fields.t = "dict" /\ k \in DOMAIN ans.v.fields.v
    /\ ans.v.fields.v[k].t = "dict" /\ e \in DOMAIN ans.v.fields.v[k].v

EntryOf(ans, k, e) == ans.v.fields.v[k].v[e]

IsNumber(x) == x.t \in {"int", "float", "bool", "hugeint"}

\* Python's ==, which takes 42 and 42.0 to be equal.
SameValue(a, b) ==
    \/ a = b
    \/ /\ a.t \in {"int", "float", "bool"} /\ b.t \in {"int", "float", "bool"}
       /\ NumToFloat(a) = NumToFloat(b)

ExpectedNumber(v) ==
    CASE v = PyNone -> PyNone
      [] v = PyInt(42) -> PyFloat(42, 0)
      [] v = PyFloat(15, 1) -> PyFloat(15, 1)
      [] v = PyBool(TRUE) -> PyFloat(1, 0)
      [] v = PyStr(S_money) -> PyFloat(123456, 2)
      [] v = PyStr(S_abc) -> PyNone
      [] v = PyStr(S_padded) -> PyFloat(42, 0)
      [] v = PyStr(S_twoDollars) -> PyNone
      [] v = PyStr(<<>>) -> PyNone
      [] v = PyStr(S_dollarSpace) -> PyFloat(18651, 2)
      [] v = PyStr(S_negative) -> PyFloat(-35, 1)
      [] v = PyStr(S_twoPoints) -> PyNone
      [] v = PyList(<<>>) -> PyNone

\* C8: after a successful run, for each of tax, total and balance_due that
\* the agent returned as an object, value is a float or null: a number as a
\* float, a string stripped of whitespace, of "," and of one leading "$" and
\* parsed, null for a null, missing or unparsable value ("$1,234.56" gives
\* 1234.56, 42 gives 42.0, "abc" and null give null).
C8_NumbersCoerced ==
    (Answered /\ ValidJsonText(agent_output_text) /\ error_msg = PyNone) =>
        \A k \in NumKeys :
            (/\ Before.t = "dict" /\ "fields" \in DOMAIN Before.v
             /\ k \in DOMAIN Before.v.fields.v
             /\ Before.v.fields.v[k].t = "dict") =>
                /\ HasEntry(extracted_fields, k, "value")
                /\ EntryOf(extracted_fields, k, "value").t \in {"float", "None"}
                /\ EntryOf(extracted_fields, k, "value") =
                      ExpectedNumber(DictGet(Before.v.fields.v[k], "value", PyNone))

C8_Witness ==
    /\ Answered /\ ValidJsonText(agent_output_text) /\ error_msg = PyNone
    /\ HasEntry(Before, "total", "value")
    /\ EntryOf(Before, "total", "value") = PyStr(S_money)
    /\ EntryOf(extracted_fields, "total", "value") = PyFloat(123456, 2)

C9_State ==
    Answered =>
        /\ InvalidJsonContent(agent_output_text) <=> error_msg = PyStr(ErrInvalidJson)
        /\ error_msg = PyStr(ErrInvalidJson) => ENABLED ClickRun

C9_Step ==
    /\ \A c \in SmallContents :
          (InvalidJsonContent(c) /\ AgentReturns(c)) =>
              /\ agent_output_text' = c
              /\ error_msg' =
                    PyStr(<<"Claude did not return valid JSON. See agent_output_raw for details.">>)
    /\ (error_msg = PyStr(ErrInvalidJson) /\ ClickRun) =>
          /\ agent_output_text' = PyNone
          /\ extracted_fields' = EmptyDict
          /\ error_msg' \in {PyNone, PyStr(ErrNoKey)}

\* C9: when the answer is not valid JSON after fence-stripping the run ends
\* with the invalid-JSON message as its error, which no other exception
\* path produces, and with the answer kept verbatim in agent_output_raw;
\* another run can then be started, and it starts with agent_output_raw
\* and extraction reset and no invalid-JSON error.
C9_InvalidJsonReported == []C9_State /\ [][C9_Step]_vars

C9_Witness ==
    /\ Answered
    /\ agent_output_text = AnswerText(FALSE, TRUE, GarbageBody(TRUE))
    /\ error_msg = PyStr(ErrInvalidJson)
    /\ result.agent_output_raw = agent_output_text

\* C10: in every final payload error and extraction exclude each other:
\* when error is set, extraction is {}.
C10_ErrorExcludesExtraction ==
    (pc = "idle" /\ shown /\ result.error # PyNone) =>
        result.extraction = EmptyDict

====
